---- MODULE Spec2Model ----
(***************************************************************************)
(* State-machine model of src/app.py: a Flask service with three routes    *)
(* ('/', '/trml_webhook', '/trml_data'), one outbound call to the          *)
(* Open-Meteo forecast API and one timezone lookup.                        *)
(*                                                                         *)
(* Values.  A JSON value received from the forecast API is a record        *)
(* [kind, n, cs]: kind is one of "absent" (the key is missing), "null",    *)
(* "int", "float" (n holds tenths), "str" (cs holds the characters),       *)
(* "bool" (n is 0 or 1), "nan", "list", "obj".  A Python value the service *)
(* puts in a response is PyNone (<<>>) or PyStr(s) (<<s>>).                *)
(***************************************************************************)
EXTENDS Integers, Sequences, FiniteSets, TLC

\* ------------------------------------------------------------------ bounds
MaxRequests == 2     \* GET /trml_data requests counted before the model stops counting
MaxCode == 101       \* largest weather code drawn (the table ends at 99)
MaxNegCode == 3      \* weather codes are drawn from -MaxNegCode upwards

\* ------------------------------------------------------------- JSON values
JV(kind, n, cs) == [kind |-> kind, n |-> n, cs |-> cs]
JAbsent == JV("absent", 0, <<>>)
JNull == JV("null", 0, <<>>)
JInt(n) == JV("int", n, <<>>)
JFloat(tenths) == JV("float", tenths, <<>>)
JStr(cs) == JV("str", 0, cs)
JBool(b) == JV("bool", b, <<>>)
JNaN == JV("nan", 0, <<>>)
JList == JV("list", 0, <<>>)
JObj == JV("obj", 0, <<>>)

PyNone == <<>>
PyStr(s) == <<s>>

\* ------------------------------------------------------ WeatherCodeCatalog
WEATHER_CODE_MAP ==
    (0 :> "Clear sky") @@ (1 :> "Mainly clear") @@ (2 :> "Partly cloudy") @@
    (3 :> "Overcast") @@ (45 :> "Fog") @@ (48 :> "Depositing rime fog") @@
    (51 :> "Light drizzle") @@ (53 :> "Moderate drizzle") @@
    (55 :> "Dense drizzle") @@ (56 :> "Light freezing drizzle") @@
    (57 :> "Dense freezing drizzle") @@ (61 :> "Slight rain") @@
    (63 :> "Moderate rain") @@ (65 :> "Heavy rain") @@
    (66 :> "Light freezing rain") @@ (67 :> "Heavy freezing rain") @@
    (71 :> "Slight snow fall") @@ (73 :> "Moderate snow fall") @@
    (75 :> "Heavy snow fall") @@ (77 :> "Snow grains") @@
    (80 :> "Slight rain showers") @@ (81 :> "Moderate rain showers") @@
    (82 :> "Violent rain showers") @@ (85 :> "Slight snow showers") @@
    (86 :> "Heavy snow showers") @@ (95 :> "Thunderstorm") @@
    (96 :> "Thunderstorm with slight hail") @@
    (99 :> "Thunderstorm with heavy hail")

\* Mutant of weather_label: the default of the lookup is the category default.
weather_label_default_other(code) ==
    IF code \in DOMAIN WEATHER_CODE_MAP THEN WEATHER_CODE_MAP[code] ELSE "Other"

\* WEATHER_CODE_MAP.get(weather_code_int, "Unknown")
weather_label(code) ==
    IF code \in DOMAIN WEATHER_CODE_MAP THEN WEATHER_CODE_MAP[code] ELSE "Unknown"

\* Mutant of get_simple_weather: the freezing-drizzle codes are left out of
\* the rain list.
get_simple_weather_no_freezing_drizzle(weather_code) ==
    IF weather_code \in {0, 1} THEN "Sunny"
    ELSE IF weather_code \in {2, 3, 45, 48} THEN "Cloudy"
    ELSE IF weather_code \in {51, 53, 55, 61, 63, 65, 66, 67, 80, 81, 82}
         THEN "Rainy"
    ELSE IF weather_code \in {71, 73, 75, 77, 85, 86} THEN "Snowy"
    ELSE IF weather_code \in {95, 96, 99} THEN "Thunderstorm"
    ELSE "Other"

\* Mutant of get_simple_weather: the final branch returns the failure word.
get_simple_weather_else_unknown(weather_code) ==
    IF weather_code \in {0, 1} THEN "Sunny"
    ELSE IF weather_code \in {2, 3, 45, 48} THEN "Cloudy"
    ELSE IF weather_code \in {51, 53, 55, 56, 57, 61, 63, 65, 66, 67, 80, 81, 82}
         THEN "Rainy"
    ELSE IF weather_code \in {71, 73, 75, 77, 85, 86} THEN "Snowy"
    ELSE IF weather_code \in {95, 96, 99} THEN "Thunderstorm"
    ELSE "Unknown"

get_simple_weather(weather_code) ==
    IF weather_code \in {0, 1} THEN "Sunny"
    ELSE IF weather_code \in {2, 3, 45, 48} THEN "Cloudy"
    ELSE IF weather_code \in {51, 53, 55, 56, 57, 61, 63, 65, 66, 67, 80, 81, 82}
         THEN "Rainy"
    ELSE IF weather_code \in {71, 73, 75, 77, 85, 86} THEN "Snowy"
    ELSE IF weather_code \in {95, 96, 99} THEN "Thunderstorm"
    ELSE "Other"

\* ------------------------------------------------- Python built-ins it uses
Digits == {"0", "1", "2", "3", "4", "5", "6", "7", "8", "9"}
DigitVal ==
    ("0" :> 0) @@ ("1" :> 1) @@ ("2" :> 2) @@ ("3" :> 3) @@ ("4" :> 4) @@
    ("5" :> 5) @@ ("6" :> 6) @@ ("7" :> 7) @@ ("8" :> 8) @@ ("9" :> 9)

RECURSIVE Join(_)
Join(cs) == IF cs = <<>> THEN "" ELSE Head(cs) \o Join(Tail(cs))

RECURSIVE LStrip(_)
LStrip(cs) ==
    IF cs # <<>> /\ Head(cs) = " " THEN LStrip(Tail(cs)) ELSE cs

RECURSIVE RStrip(_)
RStrip(cs) ==
    IF cs # <<>> /\ cs[Len(cs)] = " " THEN RStrip(SubSeq(cs, 1, Len(cs) - 1))
    ELSE cs

\* The digits of an integer literal: digits, with single underscores allowed
\* between two digits.
IsDigitRun(cs) ==
    /\ cs # <<>>
    /\ Head(cs) \in Digits
    /\ cs[Len(cs)] \in Digits
    /\ \A i \in 1..Len(cs) : cs[i] \in Digits \cup {"_"}
    /\ \A i \in 1..(Len(cs) - 1) : ~(cs[i] = "_" /\ cs[i + 1] = "_")

RECURSIVE DigitRunValue(_, _)
DigitRunValue(cs, acc) ==
    IF cs = <<>> THEN acc
    ELSE IF Head(cs) = "_" THEN DigitRunValue(Tail(cs), acc)
    ELSE DigitRunValue(Tail(cs), 10 * acc + DigitVal[Head(cs)])

Raise(exc) == [exc |-> exc, val |-> 0]
Return(val) == [exc |-> "none", val |-> val]

\* int(s) for a str s: surrounding blanks stripped, an optional sign, then
\* a digit run; anything else is a ValueError.
PyIntOfStr(cs) ==
    LET t == RStrip(LStrip(cs))
        signed == t # <<>> /\ Head(t) \in {"+", "-"}
        body == IF signed THEN Tail(t) ELSE t
    IN  IF ~IsDigitRun(body) THEN Raise("ValueError")
        ELSE IF signed /\ Head(t) = "-" THEN Return(0 - DigitRunValue(body, 0))
        ELSE Return(DigitRunValue(body, 0))

\* int(x) for a float x held in tenths: truncation toward zero.
TruncTenths(t) == IF t >= 0 THEN t \div 10 ELSE 0 - ((0 - t) \div 10)

\* int(v) for a value v parsed from JSON (v is not None).
PyInt(v) ==
    CASE v.kind = "int" -> Return(v.n)
      [] v.kind = "bool" -> Return(v.n)
      [] v.kind = "float" -> Return(TruncTenths(v.n))
      [] v.kind = "str" -> PyIntOfStr(v.cs)
      [] v.kind = "nan" -> Raise("ValueError")
      [] OTHER -> Raise("TypeError")

Pad2(n) == IF n < 10 THEN "0" \o ToString(n) ELSE ToString(n)

\* str(x) for a float x held in tenths.
FloatRepr(t) ==
    IF t >= 0 THEN ToString(t \div 10) \o "." \o ToString(t % 10)
    ELSE "-" \o ToString((0 - t) \div 10) \o "." \o ToString((0 - t) % 10)

\* format(v, "") as an f-string replacement field does it (v is not None).
PyFormat(v) ==
    CASE v.kind = "int" -> ToString(v.n)
      [] v.kind = "bool" -> IF v.n = 1 THEN "True" ELSE "False"
      [] v.kind = "float" -> FloatRepr(v.n)
      [] v.kind = "str" -> Join(v.cs)
      [] v.kind = "nan" -> "nan"
      [] v.kind = "list" -> "[]"
      [] OTHER -> "{}"

\* d.get(key): a missing key and a JSON null both give None.
DictGet(v) == IF v.kind = "absent" THEN JNull ELSE v

\* ------------------------------------------------ what the world can send
\* Outcomes of the one outbound GET.  net is "ok" (a 2xx answer whose body
\* parsed to data), "connection_error", "timeout", "http_error" (a 4xx/5xx
\* status) or "bad_json" (a 2xx answer whose body is not JSON).
Current(kind, temperature_2m, weather_code) ==
    [kind |-> kind, temperature_2m |-> temperature_2m, weather_code |-> weather_code]
NoCurrent(kind) == Current(kind, JAbsent, JAbsent)
Data(kind, current) == [kind |-> kind, current |-> current]
Outcome(net, data) == [net |-> net, data |-> data]
NoData == Data("absent", NoCurrent("absent"))

Codes == (0 - MaxNegCode)..MaxCode \cup {999}

AllTemperatures ==
    {JAbsent, JNull, JFloat(123), JFloat(0 - 5), JInt(21), JInt(0 - 4),
     JStr(<<"w", "a", "r", "m">>)}
FewTemperatures == {JFloat(123)}

AllWeatherCodes ==
    {JAbsent, JNull, JFloat(37), JFloat(0 - 5), JFloat(619), JBool(0), JBool(1),
     JNaN, JList, JObj,
     JStr(<<"3">>), JStr(<<"6", "1">>), JStr(<<" ", "9", "5", " ">>),
     JStr(<<"-", "1">>), JStr(<<"+", "2">>), JStr(<<"7", "_", "1">>),
     JStr(<<"a", "b", "c">>), JStr(<<>>), JStr(<<"3", ".", "7">>),
     JStr(<<"7", "_", "_", "1">>), JStr(<<"-">>)}
    \cup {JInt(c) : c \in Codes}
FewWeatherCodes == {JAbsent, JInt(0), JInt(61), JInt(999), JStr(<<"a", "b", "c">>)}

CurrentObjects ==
    {Current("obj", t, c) : t \in AllTemperatures, c \in FewWeatherCodes}
    \cup {Current("obj", t, c) : t \in FewTemperatures, c \in AllWeatherCodes}

ApiOutcomes ==
    {Outcome(n, NoData) : n \in {"connection_error", "timeout", "http_error", "bad_json"}}
    \cup {Outcome("ok", Data(k, NoCurrent("absent"))) : k \in {"list", "str", "null", "int"}}
    \cup {Outcome("ok", Data("obj", NoCurrent(k))) :
            k \in {"absent", "null", "str", "list", "int"}}
    \cup {Outcome("ok", Data("obj", c)) : c \in CurrentObjects}

\* Outcomes of the timezone lookup and clock read.
Tz(ok, hour, minute) == [ok |-> ok, hour |-> hour, minute |-> minute]
TzOutcomes == {Tz(FALSE, 0, 0), Tz(TRUE, 0, 5), Tz(TRUE, 14, 47), Tz(TRUE, 12, 0)}

\* What one GET /trml_data meets: every outcome of the outbound call at one
\* time of day, and every outcome of the timezone lookup for a few of them.
FewApiOutcomes ==
    {Outcome("timeout", NoData),
     Outcome("ok", Data("obj", NoCurrent("absent"))),
     Outcome("ok", Data("obj", Current("obj", JFloat(123), JInt(61)))),
     Outcome("ok", Data("obj", Current("obj", JNull, JInt(999))))}
DataInputs ==
    {<<o, Tz(TRUE, 14, 47)>> : o \in ApiOutcomes}
    \cup {<<o, tz>> : o \in FewApiOutcomes, tz \in TzOutcomes}

\* Requests.
ContentType(main, sub, suffix, params) ==
    [main |-> main, sub |-> sub, suffix |-> suffix, params |-> params]
NoContentType == ContentType("", "", "", "")
ContentTypes ==
    {NoContentType,
     ContentType("application", "json", "", ""),
     ContentType("application", "json", "", "charset=utf-8"),
     ContentType("application", "vnd.api", "json", ""),
     ContentType("text", "plain", "", ""),
     ContentType("application", "x-www-form-urlencoded", "", ""),
     ContentType("text", "json", "", "")}

WellFormedJsonBodies == {"{\"a\":1}", "null", "[1,2]", "42", "\"text\""}
MalformedBodies == {"", "{not json", "a=1&b=2", "{\"a\":1"}
Bodies == WellFormedJsonBodies \cup MalformedBodies

Request(route, method, content_type, body) ==
    [route |-> route, method |-> method, content_type |-> content_type, body |-> body]
NoRequest == Request("", "", NoContentType, "")

\* Responses.
NoJson == [k \in {} |-> PyNone]
Response(status, mimetype, text, json) ==
    [status |-> status, mimetype |-> mimetype, text |-> text, json |-> json]
NoResponse == Response(0, "", "", NoJson)

\* jsonify(d): d serialised, a Python None as null, a str as a string.
jsonify(d) == [mimetype |-> "application/json", json |-> d]

\* A handler result: what the view function returned or raised, and the
\* outbound calls it issued.
Returned(body, status, calls) ==
    [exc |-> "none", status |-> status, mimetype |-> body.mimetype,
     text |-> "", json |-> body.json, calls |-> calls]
ReturnedText(text, calls) ==
    [exc |-> "none", status |-> 200, mimetype |-> "text/html", text |-> text,
     json |-> NoJson, calls |-> calls]
Raised(exc, calls) ==
    [exc |-> exc, status |-> 0, mimetype |-> "", text |-> "", json |-> NoJson,
     calls |-> calls]

\* ---------------------------------------------------------------- state
VARIABLES
    server,         \* "serving": the process accepts requests
    req,            \* the request handled last
    resp,           \* the response sent to it
    outbound,       \* the outcomes of the outbound GETs issued while handling req
    weather,        \* what get_vienna_weather returned or raised while handling req
    outboundCalls,  \* outbound GETs issued since start
    dataRequests    \* GET /trml_data requests handled since start

vars == <<server, req, resp, outbound, weather, outboundCalls, dataRequests>>

\* ------------------------------------------------------------ WeatherClient
Reading(temperature, weather_, weather_simple) ==
    [temperature |-> temperature, weather |-> weather_, weather_simple |-> weather_simple]
FALLBACK == Reading(PyStr("N/A"), PyStr("Unknown"), PyStr("Unknown"))

RequestExceptions == {"ConnectionError", "Timeout", "HTTPError", "JSONDecodeError"}
Exceptions ==
    RequestExceptions \cup {"AttributeError", "ValueError", "TypeError", "BadRequest"}

\* Mutant of weather_code_int: an absent code becomes a code outside the table.
weather_code_int_absent_unmapped(weather_code) ==
    IF weather_code.kind # "null" THEN PyInt(weather_code) ELSE Return(0 - 1)

\* int(weather_code) if weather_code is not None else 0
weather_code_int(weather_code) ==
    IF weather_code.kind # "null" THEN PyInt(weather_code) ELSE Return(0)

\* f"{temperature}Â°C" if temperature is not None else "N/A"
temperature_label(temperature) ==
    IF temperature.kind # "null" THEN PyStr(PyFormat(temperature) \o "Â°C")
    ELSE PyStr("N/A")

\* The body of the try block: the reading it returns, or the exception the
\* first failing statement raises.
weather_try(o) ==
    IF o.net = "connection_error" THEN Raise("ConnectionError")
    ELSE IF o.net = "timeout" THEN Raise("Timeout")
    ELSE IF o.net = "http_error" THEN Raise("HTTPError")
    ELSE IF o.net = "bad_json" THEN Raise("JSONDecodeError")
    ELSE IF o.data.kind # "obj" THEN Raise("AttributeError")
    ELSE LET current == IF o.data.current.kind = "absent" THEN NoCurrent("obj")
                        ELSE o.data.current
         IN  IF current.kind # "obj" THEN Raise("AttributeError")
             ELSE LET temperature == DictGet(current.temperature_2m)
                      weather_code == DictGet(current.weather_code)
                      code == weather_code_int(weather_code)
                  IN  IF code.exc # "none" THEN Raise(code.exc)
                      ELSE Return(Reading(temperature_label(temperature),
                                          PyStr(weather_label(code.val)),
                                          PyStr(get_simple_weather(code.val))))

WeatherResult(raised, handler, value, calls) ==
    [raised |-> raised, handler |-> handler, value |-> value, calls |-> calls]
NoWeather == WeatherResult("none", "none", Reading(PyNone, PyNone, PyNone), <<>>)

\* Mutant of get_vienna_weather: only the requests library's errors are caught.
get_vienna_weather_requests_errors_only(o) ==
    LET r == weather_try(o)
    IN  IF r.exc = "none" THEN WeatherResult("none", "return", r.val, <<o>>)
        ELSE IF r.exc \in RequestExceptions
             THEN WeatherResult("none", "except RequestException", FALLBACK, <<o>>)
        ELSE WeatherResult(r.exc, "none", FALLBACK, <<o>>)

\* get_vienna_weather(): one requests.get, then the try body's reading or,
\* from either except clause, the fallback reading.
get_vienna_weather(o) ==
    LET r == weather_try(o)
    IN  IF r.exc = "none" THEN WeatherResult("none", "return", r.val, <<o>>)
        ELSE IF r.exc \in RequestExceptions
             THEN WeatherResult("none", "except RequestException", FALLBACK, <<o>>)
        ELSE IF r.exc \in Exceptions
             THEN WeatherResult("none", "except Exception", FALLBACK, <<o>>)
        ELSE WeatherResult(r.exc, "none", FALLBACK, <<o>>)

\* ------------------------------------------------------------- ClockService
\* strftime("%I:%M %p")
strftime_I_M_p(hour, minute) ==
    LET h12 == IF hour % 12 = 0 THEN 12 ELSE hour % 12
    IN  Pad2(h12) \o ":" \o Pad2(minute) \o " " \o (IF hour < 12 THEN "AM" ELSE "PM")

\* Mutant of get_vienna_time: the lookup is not guarded by a try block.
get_vienna_time_unguarded(tz) ==
    IF tz.ok THEN Return(strftime_I_M_p(tz.hour, tz.minute))
    ELSE Raise("UnknownTimeZoneError")

get_vienna_time(tz) ==
    IF tz.ok THEN Return(strftime_I_M_p(tz.hour, tz.minute))
    ELSE Return("N/A")

\* --------------------------------------------------------------- HttpServer
hello_world == ReturnedText("Hello, World!", <<>>)

\* Mutant of is_json: the whole header is compared with "application/json".
is_json_exact_header(request) ==
    request.content_type = ContentType("application", "json", "", "")

\* request.is_json: the mimetype is application/json or application/*+json.
is_json(request) ==
    /\ request.content_type.main = "application"
    /\ \/ (request.content_type.sub = "json" /\ request.content_type.suffix = "")
       \/ request.content_type.suffix = "json"

\* request.get_json(): the parsed body, or BadRequest when it does not parse.
get_json(request) ==
    IF request.body \in WellFormedJsonBodies THEN Return(request.body)
    ELSE Raise("BadRequest")

WEBHOOK_SUCCESS == [status |-> PyStr("success"), message |-> PyStr("Webhook received")]
WEBHOOK_ERROR == [status |-> PyStr("error"), message |-> PyStr("Request must be JSON")]

trml_webhook(request) ==
    IF is_json(request)
    THEN LET data == get_json(request)
         IN  IF data.exc # "none" THEN Raised(data.exc, <<>>)
             ELSE Returned(jsonify(WEBHOOK_SUCCESS), 200, <<>>)
    ELSE Returned(jsonify(WEBHOOK_ERROR), 400, <<>>)

data_for_trml(weather_data, current_time) ==
    [title |-> PyStr("Vienna Weather Plugin"),
     message |-> PyStr("Current time in Vienna: " \o current_time),
     temperature |-> weather_data.temperature,
     weather |-> weather_data.weather_simple]

\* Mutant of trml_data: a failed fetch is answered from the reading of the
\* request before.
trml_data_reuses_last_reading(w, t) ==
    IF w.raised # "none" THEN Raised(w.raised, w.calls)
    ELSE IF t.exc # "none" THEN Raised(t.exc, w.calls)
    ELSE IF w.handler # "return"
         THEN Returned(jsonify(data_for_trml(weather.value, t.val)), 200, w.calls)
    ELSE Returned(jsonify(data_for_trml(w.value, t.val)), 200, w.calls)

\* trml_data(), given what its two calls returned or raised.
trml_data(w, t) ==
    IF w.raised # "none" THEN Raised(w.raised, w.calls)
    ELSE IF t.exc # "none" THEN Raised(t.exc, w.calls)
    ELSE Returned(jsonify(data_for_trml(w.value, t.val)), 200, w.calls)

\* Flask's dispatch: the view's return value as the response; an
\* HTTPException as its own error page; any other exception as a 500 page.
\* The process keeps serving in each case.
full_dispatch_request(r) ==
    IF r.exc = "none" THEN Response(r.status, r.mimetype, r.text, r.json)
    ELSE IF r.exc = "BadRequest" THEN Response(400, "text/html", "400 Bad Request", NoJson)
    ELSE Response(500, "text/html", "500 Internal Server Error", NoJson)

\* ------------------------------------------------------------------ actions
Init ==
    /\ server = "serving"
    /\ req = NoRequest
    /\ resp = NoResponse
    /\ outbound = <<>>
    /\ weather = NoWeather
    /\ outboundCalls = 0
    /\ dataRequests = 0

\* GET /
HelloWorld ==
    /\ server = "serving"
    /\ req' = Request("/", "GET", NoContentType, "")
    /\ resp' = full_dispatch_request(hello_world)
    /\ outbound' = hello_world.calls
    /\ outboundCalls' = outboundCalls + Len(hello_world.calls)
    /\ weather' = NoWeather
    /\ UNCHANGED <<server, dataRequests>>

\* POST /trml_webhook
TrmlWebhook ==
    /\ server = "serving"
    /\ \E ct \in ContentTypes, body \in Bodies :
         LET request == Request("/trml_webhook", "POST", ct, body)
             r == trml_webhook(request)
         IN  /\ req' = request
             /\ resp' = full_dispatch_request(r)
             /\ outbound' = r.calls
             /\ outboundCalls' = outboundCalls + Len(r.calls)
    /\ weather' = NoWeather
    /\ UNCHANGED <<server, dataRequests>>

\* GET /trml_data
TrmlData ==
    /\ server = "serving"
    /\ dataRequests < MaxRequests
    /\ \E in \in DataInputs :
         LET w == get_vienna_weather(in[1])
             r == trml_data(w, get_vienna_time(in[2]))
         IN  /\ req' = Request("/trml_data", "GET", NoContentType, "")
             /\ resp' = full_dispatch_request(r)
             /\ weather' = w
             /\ outbound' = r.calls
             /\ outboundCalls' = outboundCalls + Len(r.calls)
    /\ dataRequests' = dataRequests + 1
    /\ UNCHANGED server

Next == HelloWorld \/ TrmlWebhook \/ TrmlData

Spec == Init /\ [][Next]_vars

\* ------------------------------------------------------------------ claims
DataServed == req.route = "/trml_data"
WebhookServed == req.route = "/trml_webhook"
TheCall == outbound[1]
DataKeys == {"title", "message", "temperature", "weather"}

\* The request declares a JSON content type: application/json or
\* application/<anything>+json, with or without parameters.
DeclaresJson ==
    /\ req.content_type.main = "application"
    /\ \/ req.content_type.sub = "json" /\ req.content_type.suffix = ""
       \/ req.content_type.suffix = "json"

SuccessResponse == Response(200, "application/json", "", WEBHOOK_SUCCESS)
ErrorResponse == Response(400, "application/json", "", WEBHOOK_ERROR)

C2_MalformedGetsStructuredError ==
    (WebhookServed /\ req.body \notin WellFormedJsonBodies) => resp = ErrorResponse

\* C3: GET /trml_data is always answered 200 with a JSON body that holds the
\* four keys title, message, temperature and weather, none of them null.
C3_DataAlwaysComplete ==
    DataServed =>
        /\ resp.status = 200
        /\ resp.mimetype = "application/json"
        /\ DataKeys \subseteq DOMAIN resp.json
        /\ \A k \in DataKeys : resp.json[k] # PyNone

C3_Witness ==
    /\ DataServed
    /\ TheCall.net = "timeout"
    /\ resp.status = 200
    /\ resp.json.message = PyStr("Current time in Vienna: N/A")
    /\ resp.json.temperature = PyStr("N/A")

\* The outbound call or the processing of its answer fails: a network error,
\* a timeout, a non-2xx status, a body that is not JSON, a body that is not
\* an object, a 'current' that is present and not an object, or a
\* weather_code that is no number (a list, an object, NaN, text without a
\* digit).
NonNumeric(v) ==
    \/ v.kind \in {"list", "obj", "nan"}
    \/ v.kind = "str" /\ \A i \in 1..Len(v.cs) : v.cs[i] \notin Digits
FetchFails(o) ==
    \/ o.net # "ok"
    \/ o.data.kind # "obj"
    \/ o.data.current.kind \notin {"absent", "obj"}
    \/ NonNumeric(o.data.current.weather_code)

\* C4: get_vienna_weather never raises, and on every failure of the call or
\* of the processing of its answer it returns exactly the fallback reading.
C4_FetchNeverRaises ==
    DataServed =>
        /\ weather.raised = "none"
        /\ FetchFails(TheCall) => weather.value = FALLBACK

C4_Witness ==
    /\ DataServed
    /\ TheCall.net = "ok"
    /\ TheCall.data.current.kind = "str"
    /\ weather.handler = "except Exception"
    /\ weather.value = FALLBACK

\* The call succeeded and the answer has no weather_code.
CodeAbsent ==
    /\ DataServed
    /\ TheCall.net = "ok"
    /\ TheCall.data.kind = "obj"
    /\ TheCall.data.current.kind \in {"absent", "obj"}
    /\ TheCall.data.current.weather_code.kind = "absent"

\* C5: when the call succeeds and the answer has no weather_code, the code
\* is taken as 0: label "Clear sky", category "Sunny", and the temperature
\* label still comes from temperature_2m ("N/A" when that is absent too).
C5_AbsentCodeIsClearSky ==
    CodeAbsent =>
        /\ weather.value.weather = PyStr("Clear sky")
        /\ weather.value.weather_simple = PyStr("Sunny")
        /\ resp.json.weather = PyStr("Sunny")
        /\ TheCall.data.current.temperature_2m.kind = "absent"
              => weather.value.temperature = PyStr("N/A")
        /\ TheCall.data.current.temperature_2m = JFloat(123)
              => weather.value.temperature = PyStr("12.3Â°C")
        /\ TheCall.data.current.temperature_2m = JInt(0 - 4)
              => weather.value.temperature = PyStr("-4Â°C")

C5_Witness ==
    /\ CodeAbsent
    /\ TheCall.data.current.temperature_2m = JFloat(123)
    /\ resp.json.weather = PyStr("Sunny")
    /\ resp.json.temperature = PyStr("12.3Â°C")

\* The call succeeded and the answer's weather_code is an integer.
IntCodeServed ==
    /\ DataServed
    /\ TheCall.net = "ok"
    /\ TheCall.data.kind = "obj"
    /\ TheCall.data.current.kind = "obj"
    /\ TheCall.data.current.weather_code.kind = "int"
TheCode == TheCall.data.current.weather_code.n

\* The partition of the specification.
CategoryOf(c) ==
    CASE c \in {0, 1} -> "Sunny"
      [] c \in {2, 3, 45, 48} -> "Cloudy"
      [] c \in {51, 53, 55, 56, 57, 61, 63, 65, 66, 67, 80, 81, 82} -> "Rainy"
      [] c \in {71, 73, 75, 77, 85, 86} -> "Snowy"
      [] c \in {95, 96, 99} -> "Thunderstorm"
      [] OTHER -> "Other"

\* C6: get_simple_weather maps every integer code by the fixed partition,
\* and every code outside the listed sets to "Other".
C6_CategoryPartition ==
    IntCodeServed => weather.value.weather_simple = PyStr(CategoryOf(TheCode))

C6_Witness ==
    /\ IntCodeServed
    /\ TheCode = 56
    /\ weather.value.weather_simple = PyStr("Rainy")

TableCodes ==
    {0, 1, 2, 3, 45, 48, 51, 53, 55, 56, 57, 61, 63, 65, 66, 67, 71, 73, 75, 77,
     80, 81, 82, 85, 86, 95, 96, 99}

\* C7: the label of an integer code is the table's label when the code is in
\* the table and "Unknown" when it is not; the lookup never fails.
C7_LabelTotal ==
    /\ DOMAIN WEATHER_CODE_MAP = TableCodes
    /\ IntCodeServed =>
        /\ weather.handler = "return"
        /\ TheCode \in TableCodes
              => weather.value.weather = PyStr(WEATHER_CODE_MAP[TheCode])
        /\ TheCode \notin TableCodes => weather.value.weather = PyStr("Unknown")
        /\ TheCode = 61 => weather.value.weather = PyStr("Slight rain")

C7_Witness ==
    /\ IntCodeServed
    /\ TheCode = 999
    /\ weather.value.weather = PyStr("Unknown")

\* The answer a route's contract asks for.  For the webhook: the success
\* answer to a well-formed body declared as JSON, the structured error to a
\* body that is not well-formed JSON, and never anything but one of the two.
AnsweredPerContract ==
    /\ req.route = "/" => resp = Response(200, "text/html", "Hello, World!", NoJson)
    /\ WebhookServed =>
        /\ resp \in {SuccessResponse, ErrorResponse}
        /\ (DeclaresJson /\ req.body \in WellFormedJsonBodies) => resp = SuccessResponse
        /\ req.body \notin WellFormedJsonBodies => resp = ErrorResponse
    /\ DataServed =>
        /\ resp.status = 200
        /\ DataKeys \subseteq DOMAIN resp.json

\* C8: after any sequence of requests the server is still serving, and the
\* request handled last was answered as its route's contract asks.
C8_ServingAndAnsweredPerContract ==
    /\ server = "serving"
    /\ req # NoRequest => AnsweredPerContract

\* C9: a GET /trml_data issues exactly one outbound GET, its response holds
\* the reading of that one call, and the other two routes issue none.
C9_OneCallPerDataRequest ==
    /\ outboundCalls = dataRequests
    /\ DataServed =>
        /\ Len(outbound) = 1
        /\ resp.json.temperature = get_vienna_weather(TheCall).value.temperature
        /\ resp.json.weather = get_vienna_weather(TheCall).value.weather_simple
    /\ req.route \in {"/", "/trml_webhook"} => outbound = <<>>

C9_Witness ==
    /\ DataServed
    /\ dataRequests = 2
    /\ outboundCalls = 2
    /\ Len(outbound) = 1
    /\ TheCall.net = "connection_error"
    /\ resp.json.weather = PyStr("Unknown")

\* C10: the weather field of a /trml_data response is "Unknown" exactly when
\* get_vienna_weather left through an except clause, and then the
\* temperature is "N/A"; an unmapped code gives the category "Other".
C10_UnknownIffFailure ==
    DataServed =>
        /\ resp.json.weather = PyStr("Unknown") <=> weather.handler # "return"
        /\ weather.handler # "return" <=> weather_try(TheCall).exc # "none"
        /\ weather.handler # "return" => resp.json.temperature = PyStr("N/A")
        /\ weather.handler = "return" =>
              resp.json.weather \in {PyStr("Sunny"), PyStr("Cloudy"), PyStr("Rainy"),
                                     PyStr("Snowy"), PyStr("Thunderstorm"),
                                     PyStr("Other")}

C10_Witness ==
    /\ IntCodeServed
    /\ TheCode = 999
    /\ weather.handler = "return"
    /\ weather.value.weather = PyStr("Unknown")
    /\ resp.json.weather = PyStr("Other")

====
